---------------------------- MODULE Spec2Model ----------------------------
(***************************************************************************)
(* A model of the ai-image wrapper (src/src/index.ts, src/src/cli.ts):     *)
(* the ImageGenerator constructor, the option mapping of generate() for    *)
(* the two providers, and the output-path resolution with its collision    *)
(* loop, run by several generate() calls that share one output directory.  *)
(*                                                                         *)
(* Representation.                                                         *)
(*   - A JavaScript string is a sequence of one-character strings.         *)
(*   - An optional value (a field that may be undefined) is None or        *)
(*     Some(v).                                                            *)
(*   - A JavaScript number produced by parseInt is NaN or Num(n).          *)
(*   - A step of the model is what runs between two awaits of the code:    *)
(*     JavaScript runs one call's synchronous code to its next await       *)
(*     before another call's continuation can run.                         *)
(***************************************************************************)
EXTENDS Integers, Sequences, FiniteSets, TLC

(***************************************************************************)
(* Optional values, numbers, small helpers                                 *)
(***************************************************************************)
None == <<>>

Some(v) == <<v>>

Val(o) == o[1]

NaN == {}

Num(n) == {n}

Max(S) == CHOOSE x \in S : \A y \in S : y <= x

Min(S) == CHOOSE x \in S : \A y \in S : x <= y

Range(s) == {s[i] : i \in 1..Len(s)}

\* A mutant of OrElseStr: the default wins over a supplied value.
OrElseStr_DefaultWins(o, d) == d

\* JavaScript's a || b for an optional string: undefined and '' are falsy.
OrElseStr(o, d) == IF o # None /\ Val(o) # <<>> THEN Val(o) ELSE d

\* JavaScript's a || b for an optional count: undefined and 0 are falsy.
OrElseNum(o, d) == IF o # None /\ Val(o) # 0 THEN Val(o) ELSE d

\* Truthiness of an optional string.
TruthyStr(o) == o # None /\ Val(o) # <<>>

\* Truthiness of an optional number.
TruthyNum(o) == o # None /\ Val(o) # 0

(***************************************************************************)
(* Characters                                                              *)
(***************************************************************************)
DigitChars == <<"0", "1", "2", "3", "4", "5", "6", "7", "8", "9">>

IsDigit(c) == \E d \in 1..10 : DigitChars[d] = c

DigitVal(c) == (CHOOSE d \in 1..10 : DigitChars[d] = c) - 1

\* The characters of the class [<>:"/\\|?*] of sanitizeFilename.
ForbiddenChars == {"<", ">", ":", "\"", "/", "\\", "|", "?", "*"}

\* The characters of the range \x00-\x1F that the model's alphabet holds.
ControlChars == {"\t", "\n", "\r", "\f"}

\* The characters of the class \s that the model's alphabet holds.
WhitespaceChars == {" ", "\t", "\n", "\r", "\f"}

(***************************************************************************)
(* String functions                                                        *)
(***************************************************************************)
RECURSIVE NumToStr(_)
\* The decimal digits of a natural number: `${index}` and `${counter}`.
NumToStr(n) ==
    IF n < 10 THEN <<DigitChars[n + 1]>>
    ELSE NumToStr(n \div 10) \o <<DigitChars[(n % 10) + 1]>>

RECURSIVE Split(_, _)
\* String.prototype.split on a one-character separator.
Split(s, sep) ==
    IF \A i \in 1..Len(s) : s[i] # sep THEN <<s>>
    ELSE LET k == Min({i \in 1..Len(s) : s[i] = sep})
         IN  <<SubSeq(s, 1, k - 1)>> \o Split(SubSeq(s, k + 1, Len(s)), sep)

RECURSIVE DigitsValue(_)
\* The value of a non-empty sequence of digits.
DigitsValue(s) ==
    IF Len(s) = 1 THEN DigitVal(s[1])
    ELSE 10 * DigitsValue(SubSeq(s, 1, Len(s) - 1)) + DigitVal(s[Len(s)])

\* parseInt(s): leading whitespace is skipped, an optional sign is read,
\* then the longest prefix of digits; NaN when there is no digit.
ParseInt(s) ==
    LET nonWs  == {i \in 1..Len(s) : s[i] \notin WhitespaceChars}
        t      == IF nonWs = {} THEN <<>> ELSE SubSeq(s, Min(nonWs), Len(s))
        signed == t # <<>> /\ t[1] \in {"+", "-"}
        u      == IF signed THEN Tail(t) ELSE t
        stop   == {i \in 1..Len(u) : ~IsDigit(u[i])}
        k      == IF stop = {} THEN Len(u) ELSE Min(stop) - 1
    IN  IF k = 0 THEN NaN
        ELSE IF signed /\ t[1] = "-" THEN Num(0 - DigitsValue(SubSeq(u, 1, k)))
        ELSE Num(DigitsValue(SubSeq(u, 1, k)))

\* The last part of a path: trailing slashes dropped, then what follows the
\* last slash (the part path.extname and path.basename work on).
LastPart(p) ==
    LET keep    == {i \in 1..Len(p) : p[i] # "/"}
        q       == IF keep = {} THEN <<>> ELSE SubSeq(p, 1, Max(keep))
        slashes == {i \in 1..Len(q) : q[i] = "/"}
    IN  IF slashes = {} THEN q ELSE SubSeq(q, Max(slashes) + 1, Len(q))

\* path.extname (POSIX): from the last dot of the last part to its end; ''
\* when there is no dot, when the last dot is the part's first character,
\* and for the part '..'.
ExtName(p) ==
    LET part == LastPart(p)
        dots == {i \in 1..Len(part) : part[i] = "."}
    IN  IF dots = {} THEN <<>>
        ELSE LET startDot == Max(dots)
             IN  IF startDot = 1 THEN <<>>
                 ELSE IF Len(part) = 2 /\ part[1] = "." THEN <<>>
                 ELSE SubSeq(part, startDot, Len(part))

\* path.basename(p, ext) (POSIX): the last part, without ext when it ends
\* with ext and is longer than ext; '' when ext is the whole path.
BaseName(p, ext) ==
    LET part == LastPart(p)
        n    == Len(part)
        m    == Len(ext)
    IN  IF ext # <<>> /\ m <= Len(p)
        THEN IF ext = p THEN <<>>
             ELSE IF m < n /\ SubSeq(part, n - m + 1, n) = ext
                  THEN SubSeq(part, 1, n - m)
                  ELSE part
        ELSE part

\* path.join(dir, filename) for a filename that holds no separator and is
\* neither '.' nor '..' (every filename getOutputPath builds).
Join(dir, filename) == dir \o <<"/">> \o filename

(***************************************************************************)
(* sanitizeFilename                                                        *)
(***************************************************************************)
\* .substring(0, 200)
MaxStemLen == 200

\* .replace(/[<>:"/\\|?*\x00-\x1F]/g, '')
RemoveForbidden(s) ==
    SelectSeq(s, LAMBDA c : c \notin (ForbiddenChars \cup ControlChars))

\* .replace(/\s+/g, '_'): every maximal run of whitespace becomes one '_'.
ReplaceWhitespaceRuns(s) ==
    LET marked == [i \in 1..Len(s) |->
                     IF s[i] \in WhitespaceChars
                     THEN (IF i > 1 /\ s[i - 1] \in WhitespaceChars
                           THEN "" ELSE "_")
                     ELSE s[i]]
    IN  SelectSeq(marked, LAMBDA c : c # "")

\* A mutant of Substring0: the string is not cut.
Substring0_NotCut(s, n) == s

\* .substring(0, n)
Substring0(s, n) == SubSeq(s, 1, IF Len(s) < n THEN Len(s) ELSE n)

sanitizeFilename(filename) ==
    Substring0(ReplaceWhitespaceRuns(RemoveForbidden(filename)), MaxStemLen)

(***************************************************************************)
(* getOutputPath: the candidate filename and the collision filename        *)
(***************************************************************************)
\* A mutant of IndexSuffix: the first image gets a suffix too.
IndexSuffix_FromZero(index) == <<"_">> \o NumToStr(index)

\* index > 0 ? `_${index}` : ''
IndexSuffix(index) == IF index > 0 THEN <<"_">> \o NumToStr(index) ELSE <<>>

\* Lines 83-92: the filename before the collision loop.
CandidateFilename(outputFilename, prompt, index, extension) ==
    IF TruthyStr(outputFilename)
    THEN LET ext  == ExtName(Val(outputFilename))
             name == BaseName(Val(outputFilename), ext)
         IN  name \o IndexSuffix(index)
                  \o (IF ext # <<>> THEN ext ELSE <<".">> \o extension)
    ELSE sanitizeFilename(prompt) \o IndexSuffix(index) \o <<".">> \o extension

\* A mutant of CollisionFilename: the counter is left out of the name.
CollisionFilename_SameName(filename, counter) ==
    LET ext  == ExtName(filename)
        name == BaseName(filename, ext)
    IN  name \o <<" ", "1">> \o ext

\* Lines 99-101: the filename tried after `counter` collisions, built from
\* the candidate filename each time.
CollisionFilename(filename, counter) ==
    LET ext  == ExtName(filename)
        name == BaseName(filename, ext)
    IN  name \o <<" ">> \o NumToStr(counter) \o ext

(***************************************************************************)
(* generate: the request payload of each provider                          *)
(***************************************************************************)
\* 'gpt-image-1'
DefaultOpenAIModel == <<"g", "p", "t", "-", "i", "m", "a", "g", "e", "-", "1">>

\* 'stability-ai/sdxl:39ed...' (abbreviated to its model name)
DefaultReplicateModel == <<"s", "d", "x", "l">>

\* '1024x1024'
DefaultSize == <<"1", "0", "2", "4", "x", "1", "0", "2", "4">>

\* '1024'
DefaultDimension == <<"1", "0", "2", "4">>

\* 'auto'
StrAuto == <<"a", "u", "t", "o">>

\* 'png'
StrPng == <<"p", "n", "g">>

\* 'jpeg'
StrJpeg == <<"j", "p", "e", "g">>

\* 'webp'
StrWebp == <<"w", "e", "b", "p">>

\* Lines 128-148: generateParams.
OpenAIParams(o) ==
    [ model    |-> OrElseStr(o.model, DefaultOpenAIModel),
      prompt   |-> o.prompt,
      size     |-> OrElseStr(o.size, DefaultSize),
      quality  |-> OrElseStr(o.quality, StrAuto),
      n        |-> OrElseNum(o.n, 1),
      output_format |->
          IF TruthyStr(o.format) /\ Val(o.format) # StrPng
          THEN Some(Val(o.format)) ELSE None,
      output_compression |->
          IF TruthyNum(o.compression)
             /\ o.format \in {Some(StrJpeg), Some(StrWebp)}
          THEN Some(Val(o.compression)) ELSE None,
      background |->
          IF TruthyStr(o.background) THEN Some(Val(o.background)) ELSE None ]

\* options.size?.split('x')[k], with k counted from 0.
SizePart(size, k) ==
    IF size = None THEN None
    ELSE LET parts == Split(Val(size), "x")
         IN  IF k + 1 <= Len(parts) THEN Some(parts[k + 1]) ELSE None

\* Lines 172-177: replicateInput.
ReplicateInput(o) ==
    [ prompt      |-> o.prompt,
      width       |-> ParseInt(OrElseStr(SizePart(o.size, 0), DefaultDimension)),
      height      |-> ParseInt(OrElseStr(SizePart(o.size, 1), DefaultDimension)),
      num_outputs |-> OrElseNum(o.n, 1) ]

(***************************************************************************)
(* State                                                                   *)
(***************************************************************************)
VARIABLES
    env,        \* process.env: OPENAI_API_KEY and REPLICATE_API_TOKEN
    gen,        \* the ImageGenerator object, or the error its constructor threw
    disk,       \* the output directory: path -> what was written there
    call,       \* per generate() call: its position, its locals, its history
    network,    \* the requests sent to a provider, in order
    overwrites, \* history: the writes that replaced a file that existed
    cli         \* the command line front end: not run, exited, or running

vars == <<env, gen, disk, call, network, overwrites, cli>>

\* The generate() calls that may run at once, named in the order in which
\* they start.
CallOrder == <<"c1", "c2">>

Calls == Range(CallOrder)

\* process.cwd()
Cwd == <<"/", "w">>

\* What a file that was on disk before any call holds.
OldData == <<"old", 0>>

\* The fields of the object, the error of its constructor, and (history)
\* the apiKey option the constructor was called with.
NoGen ==
    [ state |-> "none", provider |-> "", outputDir |-> <<>>,
      outputFilename |-> None, client |-> "none", apiKey |-> <<>>,
      error |-> "", apiKeyOption |-> None ]

\* The locals of a generate() call and of the getOutputPath call it is in,
\* and its history: the provider requests it has issued (requests), the
\* indices it has called getOutputPath with (resolved), the paths the
\* current getOutputPath call has checked (tried, checks), the paths whose
\* check threw an error that fileExists caught (swallowed), and the files of
\* the directory when the call started (atStart).
IdleCall ==
    [ pc |-> "idle", opts |-> <<>>, payload |-> <<>>, model |-> <<>>,
      response |-> <<>>, i |-> 0, filename |-> <<>>, outputPath |-> <<>>,
      counter |-> 0, checks |-> 0, atStart |-> {},
      resolved |-> <<>>, savedPaths |-> <<>>, error |-> <<>>,
      requests |-> 0, tried |-> <<>>, swallowed |-> <<>> ]

(***************************************************************************)
(* The constructor                                                         *)
(***************************************************************************)
\* A mutant of getApiKeyFromEnv: each provider reads the other's variable.
getApiKeyFromEnv_OtherVariable(provider) ==
    CASE provider = "openai"    -> env.REPLICATE_API_TOKEN
      [] provider = "replicate" -> env.OPENAI_API_KEY
      [] OTHER                  -> None

\* Lines 61-70.
getApiKeyFromEnv(provider) ==
    CASE provider = "openai"    -> env.OPENAI_API_KEY
      [] provider = "replicate" -> env.REPLICATE_API_TOKEN
      [] OTHER                  -> None

\* Lines 38-59: the object the constructor leaves, or the error it throws.
Constructed(provider, apiKeyOpt, outputDir, outputFilename) ==
    LET fromEnv == getApiKeyFromEnv(provider)
        apiKey  == IF TruthyStr(apiKeyOpt) THEN apiKeyOpt ELSE fromEnv
        fields  == [ NoGen EXCEPT !.provider = provider,
                                  !.outputDir = OrElseStr(outputDir, Cwd),
                                  !.outputFilename = outputFilename,
                                  !.apiKeyOption = apiKeyOpt ]
    IN  IF ~TruthyStr(apiKey)
        THEN [ fields EXCEPT !.state = "failed", !.error = "ApiKeyNotFound" ]
        ELSE IF provider \in {"openai", "replicate"}
        THEN [ fields EXCEPT !.state = "ok", !.client = provider,
                             !.apiKey = Val(apiKey) ]
        ELSE [ fields EXCEPT !.state = "failed",
                             !.error = "UnsupportedProvider" ]

\* new ImageGenerator({provider, apiKey, outputDir, outputFilename})
Construct(provider, apiKey, outputDir, outputFilename) ==
    /\ gen.state = "none"
    /\ cli = "none"
    /\ gen' = Constructed(provider, apiKey, outputDir, outputFilename)
    /\ UNCHANGED <<env, disk, call, network, overwrites, cli>>

(***************************************************************************)
(* generate                                                                *)
(***************************************************************************)
\* The message of the error generate() throws from its catch block.
Wrapped(message) == <<"Failed to generate image", message>>

\* Lines 201-204: generate() returns savedPaths.
Returned(c) == [c EXCEPT !.pc = "done"]

\* A mutant of Thrown: the underlying error is thrown as it is.
Thrown_Unwrapped(c, message) ==
    [c EXCEPT !.pc = "failed", !.error = <<message>>]

\* Lines 205-208: generate() throws the wrapped error.
Thrown(c, message) == [c EXCEPT !.pc = "failed", !.error = Wrapped(message)]

\* Lines 80-98: getOutputPath up to its first existence check.
EnterResolver(c, extension) ==
    LET filename == CandidateFilename(gen.outputFilename, c.opts.prompt,
                                      c.i, extension)
    IN  [c EXCEPT !.filename = filename,
                  !.outputPath = Join(gen.outputDir, filename),
                  !.counter = 1,
                  !.checks = 0,
                  !.tried = <<>>,
                  !.resolved = Append(@, c.i),
                  !.pc = "access"]

\* Lines 158-163 and 189-191: the save loop from index i to its next await
\* (the existence check of the next image that carries b64_json for OpenAI,
\* the fetch of the next URL for Replicate), or to the return.
LoopFrom(c, i) ==
    IF gen.provider = "openai"
    THEN LET rest == {j \in i..(Len(c.response) - 1) : c.response[j + 1] = "b64"}
         IN  IF rest = {} THEN Returned([c EXCEPT !.i = Len(c.response)])
             ELSE EnterResolver([c EXCEPT !.i = Min(rest)],
                                OrElseStr(c.opts.format, StrPng))
    ELSE IF i < Len(c.response)
         THEN [c EXCEPT !.i = i, !.pc = "fetch"]
         ELSE Returned([c EXCEPT !.i = i])

\* Lines 118-155 and 168-186: generate(options) up to the provider request.
Requested(p, o) ==
    CASE gen.provider = "openai" /\ gen.client = "openai" ->
           [IdleCall EXCEPT !.pc = "request", !.opts = o, !.requests = 1,
                            !.payload = OpenAIParams(o),
                            !.model = OrElseStr(o.model, DefaultOpenAIModel),
                            !.atStart = DOMAIN disk]
      [] gen.provider = "replicate" /\ gen.client = "replicate" ->
           [IdleCall EXCEPT !.pc = "request", !.opts = o, !.requests = 1,
                            !.payload = ReplicateInput(o),
                            !.model = OrElseStr(o.model, DefaultReplicateModel),
                            !.atStart = DOMAIN disk]
      [] OTHER -> Returned([IdleCall EXCEPT !.opts = o])

\* generator.generate(o), called by p.
Generate(p, o) ==
    /\ gen.state = "ok"
    /\ call[p].pc = "idle"
    /\ call' = [call EXCEPT ![p] = Requested(p, o)]
    /\ network' = IF Requested(p, o).pc = "request"
                  THEN network \cup {<<p, gen.provider>>}
                  ELSE network
    /\ UNCHANGED <<env, gen, disk, overwrites, cli>>

\* The provider's answer arrives: result.data (an entry is "b64" when it
\* carries b64_json and "url" when it does not) or the list of URLs.
ProviderReturns(p, data) ==
    /\ call[p].pc = "request"
    /\ call' = [call EXCEPT ![p] = LoopFrom([@ EXCEPT !.response = data], 0)]
    /\ UNCHANGED <<env, gen, disk, network, overwrites, cli>>

\* A mutant of ProviderFails: the rejected request is sent again.
ProviderFails_Retries(p) ==
    /\ call[p].pc = "request"
    /\ call' = [call EXCEPT ![p].requests = @ + 1]
    /\ UNCHANGED <<env, gen, disk, network, overwrites, cli>>

\* The provider request rejects.
ProviderFails(p) ==
    /\ call[p].pc = "request"
    /\ call' = [call EXCEPT ![p] = Thrown(@, "provider")]
    /\ UNCHANGED <<env, gen, disk, network, overwrites, cli>>

\* Lines 191-195: the image at output[i] is fetched and getOutputPath is
\* called with its default extension.
FetchReturns(p) ==
    /\ call[p].pc = "fetch"
    /\ call' = [call EXCEPT ![p] = EnterResolver(@, StrPng)]
    /\ UNCHANGED <<env, gen, disk, network, overwrites, cli>>

\* fetch(imageUrl) rejects.
FetchFails(p) ==
    /\ call[p].pc = "fetch"
    /\ call' = [call EXCEPT ![p] = Thrown(@, "fetch")]
    /\ UNCHANGED <<env, gen, disk, network, overwrites, cli>>

\* A mutant of AfterAccess: an `if` in place of the `while`, so that the
\* filename built after a collision is returned unchecked.
AfterAccess_CheckedOnce(c, exists) ==
    IF exists
    THEN [c EXCEPT !.outputPath =
                       Join(gen.outputDir, CollisionFilename(c.filename, c.counter)),
                   !.counter = @ + 1,
                   !.checks = @ + 1,
                   !.tried = Append(@, c.outputPath),
                   !.pc = "write"]
    ELSE [c EXCEPT !.pc = "write", !.checks = @ + 1,
                   !.tried = Append(@, c.outputPath)]

\* Lines 98-106 and 109-116: one existence check of the collision loop. The
\* path exists: the next filename is built and checked in turn. It does
\* not: getOutputPath returns it and generate() calls writeFile.
AfterAccess(c, exists) ==
    IF exists
    THEN [c EXCEPT !.outputPath =
                       Join(gen.outputDir, CollisionFilename(c.filename, c.counter)),
                   !.counter = @ + 1,
                   !.checks = @ + 1,
                   !.tried = Append(@, c.outputPath)]
    ELSE [c EXCEPT !.pc = "write", !.checks = @ + 1,
                   !.tried = Append(@, c.outputPath)]

\* fs.access(outputPath) resolves when the file is there and rejects with
\* ENOENT when it is not.
Access(p) ==
    /\ call[p].pc = "access"
    /\ call' = [call EXCEPT ![p] = AfterAccess(@, @.outputPath \in DOMAIN disk)]
    /\ UNCHANGED <<env, gen, disk, network, overwrites, cli>>

\* Lines 109-116: fs.access(outputPath) rejects with an error other than
\* ENOENT (EACCES, EIO, ...), whether or not the file is there: the catch
\* of fileExists takes every error and returns false.
AccessFails(p) ==
    /\ call[p].pc = "access"
    /\ call' = [call EXCEPT ![p] =
                  [AfterAccess(call[p], FALSE) EXCEPT
                      !.swallowed = Append(@, call[p].outputPath)]]
    /\ UNCHANGED <<env, gen, disk, network, overwrites, cli>>

\* The directory after writeFile(path, data).
Written(path, data) ==
    [q \in (DOMAIN disk) \cup {path} |-> IF q = path THEN data ELSE disk[q]]

\* Lines 164-165 and 196-197: writeFile creates or replaces the file, the
\* path is pushed, and the loop goes on with the next index.
Write(p) ==
    /\ call[p].pc = "write"
    /\ LET c    == call[p]
           path == c.outputPath
       IN  /\ disk' = Written(path, <<p, c.i>>)
           /\ overwrites' =
                IF path \in DOMAIN disk
                THEN overwrites \cup
                       {[ by |-> p, path |-> path, old |-> disk[path],
                          atStart |-> path \in c.atStart,
                          own |-> path \in Range(c.savedPaths) ]}
                ELSE overwrites
           /\ call' = [call EXCEPT ![p] =
                         LoopFrom([c EXCEPT !.savedPaths = Append(@, path)],
                                  c.i + 1)]
    /\ UNCHANGED <<env, gen, network, cli>>

\* writeFile rejects: nothing is written.
WriteFails(p) ==
    /\ call[p].pc = "write"
    /\ call' = [call EXCEPT ![p] = Thrown(@, "write")]
    /\ UNCHANGED <<env, gen, disk, network, overwrites, cli>>

(***************************************************************************)
(* The command line front end (cli.ts, the generate command)               *)
(***************************************************************************)
\* String.prototype.toLowerCase on the provider tags of the model.
ToLowerCase(tag) ==
    CASE tag = "OpenAI"    -> "openai"
      [] tag = "REPLICATE" -> "replicate"
      [] OTHER             -> tag

\* path.parse(p).dir: what precedes the last slash ('' without a slash).
ParsedDir(p) ==
    LET slashes == {i \in 1..Len(p) : p[i] = "/"}
    IN  IF slashes = {} THEN <<>>
        ELSE IF Max(slashes) = 1 THEN <<"/">>
        ELSE SubSeq(p, 1, Max(slashes) - 1)

\* parseInt(options.number) and parseInt(options.compression) as generate()
\* reads them: NaN is falsy, like an absent value.
ParsedCount(s) == IF ParseInt(s) = NaN THEN None ELSE Some(Max(ParseInt(s)))

\* Lines 55-72: the constructor options the command builds.
CliOutputDir(a) ==
    IF TruthyStr(a.output) /\ ParsedDir(Val(a.output)) # <<>>
    THEN Some(ParsedDir(Val(a.output))) ELSE Some(a.outputDir)

CliOutputFilename(a) ==
    IF TruthyStr(a.output) /\ ParsedDir(Val(a.output)) # <<>>
    THEN Some(LastPart(Val(a.output))) ELSE a.output

\* Lines 87-99: generateOptions.
CliGenerateOptions(a) ==
    [ prompt      |-> Val(a.prompt),
      model       |-> a.model,
      size        |-> Some(a.size),
      quality     |-> Some(a.quality),
      n           |-> ParsedCount(a.number),
      format      |-> IF a.format # <<>> THEN Some(a.format) ELSE None,
      compression |-> IF TruthyStr(a.compression)
                      THEN ParsedCount(Val(a.compression)) ELSE None,
      background  |-> IF TruthyStr(a.background) THEN a.background ELSE None ]

\* Lines 35-122: `ai-image generate` with the parsed options a. It exits
\* with status 1 on a missing prompt, on an unknown provider and on an error
\* of the constructor; otherwise it calls generate() as the first call.
CliGenerate(a) ==
    /\ cli = "none"
    /\ gen.state = "none"
    /\ LET provider == ToLowerCase(a.provider)
           made     == Constructed(provider, a.apiKey, CliOutputDir(a),
                                   CliOutputFilename(a))
           p        == CallOrder[1]
       IN  IF ~TruthyStr(a.prompt)
           THEN /\ cli' = "exit 1: prompt is required"
                /\ UNCHANGED <<gen, call, network>>
           ELSE IF provider \notin {"openai", "replicate"}
           THEN /\ cli' = "exit 1: provider must be openai or replicate"
                /\ UNCHANGED <<gen, call, network>>
           ELSE IF made.state # "ok"
           THEN /\ cli' = "exit 1: error"
                /\ gen' = made
                /\ UNCHANGED <<call, network>>
           ELSE /\ cli' = "generating"
                /\ gen' = made
                /\ call' = [call EXCEPT ![p] =
                     [IdleCall EXCEPT
                        !.pc = "request",
                        !.requests = 1,
                        !.opts = CliGenerateOptions(a),
                        !.payload = IF provider = "openai"
                                    THEN OpenAIParams(CliGenerateOptions(a))
                                    ELSE ReplicateInput(CliGenerateOptions(a)),
                        !.model = OrElseStr(a.model,
                                     IF provider = "openai"
                                     THEN DefaultOpenAIModel
                                     ELSE DefaultReplicateModel),
                        !.atStart = DOMAIN disk]]
                /\ network' = network \cup {<<p, provider>>}
    /\ UNCHANGED <<env, disk, overwrites>>

(***************************************************************************)
(* Inputs                                                                  *)
(***************************************************************************)
\* The most images a provider returns for one request, when two calls
\* interleave (Spec).
MaxImages == 2

\* The most images a provider returns for one request, when one call runs
\* (SpecName).
MaxNamed == 3

StrCat == <<"c", "a", "t">>

StrQuestion == <<"?">>

StrCustom == <<"c", "u", "s", "t", "o", "m">>

StrCustomPng == StrCustom \o <<".">> \o StrPng

StrKey == <<"k">>

\* generate() options with every optional field absent.
PromptOnly(prompt) ==
    [ prompt |-> prompt, model |-> None, size |-> None, quality |-> None,
      format |-> None, compression |-> None, background |-> None, n |-> None ]

\* A directory of process.cwd() holding the given filenames.
DiskOf(filenames) == [q \in {Join(Cwd, f) : f \in filenames} |-> OldData]

\* The answers of a provider: result.data of at most max entries, with or
\* without b64_json, or at most max URLs.
Responses(provider, max) ==
    UNION {[1..k -> IF provider = "openai" THEN {"b64", "url"} ELSE {"url"}] :
             k \in 0..max}

EnvWithKeys ==
    [ OPENAI_API_KEY |-> Some(StrKey), REPLICATE_API_TOKEN |-> Some(StrKey) ]

(***************************************************************************)
(* Spec: concurrent generate() calls on one generator and one directory    *)
(***************************************************************************)
IOFilenames == {None, Some(StrCustomPng), Some(StrCustom)}

IOOptions ==
    { PromptOnly(StrCat), PromptOnly(StrQuestion),
      [PromptOnly(StrCat) EXCEPT !.format = Some(StrJpeg)] }

IODisks ==
    { DiskOf({}),
      DiskOf({StrCustomPng}),
      DiskOf({StrCustomPng, StrCustom \o <<" ", "1", ".">> \o StrPng}),
      DiskOf({StrCustom \o <<"_", "1", ".">> \o StrPng}),
      DiskOf({StrCat \o <<".">> \o StrPng, <<".">> \o StrPng}) }

Init ==
    /\ env = EnvWithKeys
    /\ gen = NoGen
    /\ disk \in IODisks
    /\ call = [p \in Calls |-> IdleCall]
    /\ network = {}
    /\ overwrites = {}
    /\ cli = "none"

Next ==
    \/ \E provider \in {"openai", "replicate"}, fn \in IOFilenames :
          Construct(provider, None, None, fn)
    \/ \E k \in 1..Len(CallOrder), o \in IOOptions :
          /\ \A j \in 1..(k - 1) : call[CallOrder[j]].pc # "idle"
          /\ Generate(CallOrder[k], o)
    \/ \E p \in Calls : \E data \in Responses(gen.provider, MaxImages) :
          ProviderReturns(p, data)
    \/ \E p \in Calls : FetchReturns(p)
    \/ \E p \in Calls : Access(p)
    \/ \E p \in Calls : Write(p)

Spec == Init /\ [][Next]_vars

(***************************************************************************)
(* Claims checked under Spec                                               *)
(***************************************************************************)
\* The paths getOutputPath has returned to call p so far, in order: those
\* written and pushed, and the one writeFile is about to be called with.
AssignedPaths(p) ==
    call[p].savedPaths \o
        (IF call[p].pc = "write" THEN <<call[p].outputPath>> ELSE <<>>)

NoDuplicates(s) == \A i, j \in 1..Len(s) : i # j => s[i] # s[j]

\* C1: no two images are ever assigned the same path: the paths one
\* generate call resolves are pairwise distinct, and so are the paths of two
\* calls that interleave on the same output directory.
C1_DistinctPaths ==
    /\ \A p \in Calls : NoDuplicates(AssignedPaths(p))
    /\ \A p, q \in Calls :
          p # q => Range(AssignedPaths(p)) \cap Range(AssignedPaths(q)) = {}

C10_OneResolvedPathPerImage ==
    \A p \in Calls :
        call[p].pc = "done" =>
            LET k == Len(call[p].response)
            IN  /\ call[p].resolved = [j \in 1..k |-> j - 1]
                /\ Len(call[p].savedPaths) = k

\* The entries of a call's provider response that carry image data the
\* code can save: those with b64_json for OpenAI, every URL for Replicate.
Usable(p) ==
    {j \in 1..Len(call[p].response) :
        gen.provider = "openai" => call[p].response[j] = "b64"}

\* A call whose provider request has completed.
Answered(p) == call[p].pc \notin {"idle", "request"}

\* C12: when the provider's answer holds no usable image data (an empty
\* list, or only entries without b64_json), generate fails with a provider
\* request error; and generate never returns with fewer saved paths than
\* the provider returned images.
C12_NoUsableDataIsAnError ==
    \A p \in Calls :
        /\ (Answered(p) /\ Usable(p) = {}) =>
              /\ call[p].pc = "failed"
              /\ call[p].error = Wrapped("provider")
        /\ call[p].pc = "done" =>
              Len(call[p].savedPaths) >= Len(call[p].response)

(***************************************************************************)
(* SpecName: one generate() call at a time, over many prompts, explicit    *)
(* filenames and directories: the naming of the output files               *)
(***************************************************************************)
\* A prompt of n letters.
Letters(n) == [i \in 1..n |-> "a"]

\* A prompt of n characters, every second one being c.
Every2nd(n, c) == [i \in 1..n |-> IF i % 2 = 0 THEN c ELSE "a"]

NamePrompts ==
    { StrCat, StrQuestion, <<>>,
      <<"a", " ", " ", "c">>, <<"a", "\t", "c">>, <<"a", "\n", " ", "c">>,
      <<" ", "a", "/", "b", ":", "c", " ">>,
      Letters(MaxStemLen - 1), Letters(MaxStemLen), Letters(MaxStemLen + 1),
      Every2nd(MaxStemLen + 2, " "), Every2nd(2 * MaxStemLen + 2, "*") }

NameOptions ==
    {[PromptOnly(prompt) EXCEPT !.format = format] :
        prompt \in NamePrompts, format \in {None, Some(StrJpeg)}}

NameFilenames ==
    { None, Some(<<>>), Some(StrCustomPng), Some(StrCustom),
      Some(<<".", "e", "n", "v">>), Some(<<"a", ".", "b", ".">> \o StrJpeg) }

NameDisks ==
    { DiskOf({}),
      DiskOf({StrCustomPng, StrCustom \o <<" ", "1", ".">> \o StrPng,
              StrCustom \o <<"_", "1", ".">> \o StrPng}),
      DiskOf({StrCustomPng, StrCustom \o <<" ", "2", ".">> \o StrPng}),
      DiskOf({StrCat \o <<".">> \o StrPng, <<".">> \o StrPng,
              StrCat \o <<"_", "1", ".">> \o StrPng,
              StrCat \o <<"_", "1", " ", "1", ".">> \o StrPng}) }

\* The one call of SpecName.
NameCalls == {CallOrder[1]}

InitName ==
    /\ env = EnvWithKeys
    /\ gen = NoGen
    /\ disk \in NameDisks
    /\ call = [p \in Calls |-> IdleCall]
    /\ network = {}
    /\ overwrites = {}
    /\ cli = "none"

NextName ==
    \/ \E provider \in {"openai", "replicate"}, fn \in NameFilenames :
          Construct(provider, None, None, fn)
    \/ \E p \in NameCalls, o \in NameOptions : Generate(p, o)
    \/ \E p \in NameCalls : \E data \in Responses(gen.provider, MaxNamed) :
          ProviderReturns(p, data)
    \/ \E p \in NameCalls : FetchReturns(p)
    \/ \E p \in NameCalls : Access(p)
    \/ \E p \in NameCalls : Write(p)

SpecName == InitName /\ [][NextName]_vars

(***************************************************************************)
(* Claims checked under SpecName                                           *)
(***************************************************************************)
\* The extension generate() passes to getOutputPath.
PassedExtension(p) ==
    IF gen.provider = "openai" THEN OrElseStr(call[p].opts.format, StrPng)
    ELSE StrPng

\* A filename read as 'stem.ext': it has an extension when a dot follows a
\* non-empty stem, and the last such dot splits it.
HasExtension(f) == \E k \in 2..Len(f) : f[k] = "."

LastDot(f) == Max({k \in 1..Len(f) : f[k] = "."})

StemOf(f) == IF HasExtension(f) THEN SubSeq(f, 1, LastDot(f) - 1) ELSE f

ExtensionOf(f) == SubSeq(f, LastDot(f) + 1, Len(f))

\* 'stem.ext' for index 0 and 'stem_i.ext' for index i > 0.
Indexed(stem, i, ext) ==
    stem \o (IF i = 0 THEN <<>> ELSE <<"_">> \o NumToStr(i)) \o <<".">> \o ext

\* C3: absent collisions, image i of a call is saved as 'stem.ext' (i = 0)
\* or 'stem_i.ext' (i > 0), where stem.ext is the explicit filename (with
\* the passed-in extension when it has none) or, with no explicit filename,
\* the sanitized prompt and the passed-in extension.
C3_NameWithoutCollision ==
    \A p \in NameCalls :
        (call[p].pc = "write" /\ call[p].counter = 1) =>
            LET fn == gen.outputFilename
                i  == call[p].i
            IN  call[p].outputPath = Join(gen.outputDir,
                    IF fn # None /\ Val(fn) # <<>>
                    THEN Indexed(StemOf(Val(fn)), i,
                                 IF HasExtension(Val(fn))
                                 THEN ExtensionOf(Val(fn))
                                 ELSE PassedExtension(p))
                    ELSE Indexed(sanitizeFilename(call[p].opts.prompt), i,
                                 PassedExtension(p)))

\* C3's case: custom.png and three images: the third image is resolved
\* without a collision after the first two were saved.
C3_Witness ==
    \E p \in NameCalls :
        /\ call[p].pc = "write"
        /\ call[p].counter = 1
        /\ call[p].i = 2
        /\ Len(call[p].savedPaths) = 2
        /\ gen.outputFilename = Some(StrCustomPng)
        /\ call[p].outputPath =
              Cwd \o <<"/">> \o StrCustom \o <<"_", "2", ".">> \o StrPng

\* 'name k.ext'
Countered(name, k, ext) == name \o <<" ">> \o NumToStr(k) \o <<".">> \o ext

\* C4: when the candidate filename 'name.ext' exists, getOutputPath returns
\* 'name k.ext' for the smallest k >= 1 for which no such file exists.
C4_CollisionName ==
    \A p \in NameCalls :
        (call[p].pc = "write" /\ call[p].counter > 1) =>
            LET f    == call[p].filename
                name == SubSeq(f, 1, LastDot(f) - 1)
                ext  == ExtensionOf(f)
                k    == call[p].counter - 1
            IN  /\ call[p].outputPath = Join(gen.outputDir, Countered(name, k, ext))
                /\ \A j \in 1..(k - 1) :
                      Join(gen.outputDir, Countered(name, j, ext)) \in DOMAIN disk

\* The same, for the candidates whose name before the last dot is not empty.
C4_CollisionNameOfNonEmptyStem ==
    \A p \in NameCalls :
        (call[p].pc = "write" /\ call[p].counter > 1
             /\ LastDot(call[p].filename) > 1) =>
            LET f    == call[p].filename
                name == SubSeq(f, 1, LastDot(f) - 1)
                ext  == ExtensionOf(f)
                k    == call[p].counter - 1
            IN  /\ call[p].outputPath = Join(gen.outputDir, Countered(name, k, ext))
                /\ \A j \in 1..(k - 1) :
                      Join(gen.outputDir, Countered(name, j, ext)) \in DOMAIN disk

\* The part of a prompt-derived candidate filename before its extension.
BeforeExtension(p) ==
    SubSeq(call[p].filename, 1,
           Len(call[p].filename) - Len(PassedExtension(p)) - 1)

\* A prompt-derived candidate filename holds no forbidden character, no
\* control character and no whitespace.
CleanName(p) ==
    \A k \in 1..Len(call[p].filename) :
        call[p].filename[k] \notin
            {"<", ">", ":", "\"", "/", "\\", "|", "?", "*",
             "\t", "\n", "\r", "\f", " "}

\* A call that is resolving or writing an image named after its prompt.
NamedAfterPrompt(p) ==
    /\ call[p].pc \in {"access", "write"}
    /\ ~TruthyStr(gen.outputFilename)

\* C5 as stated: the filename derived from the prompt is clean and its part
\* before the extension is at most 200 characters long, for every index.
C5_CleanAndAtMost200 ==
    \A p \in NameCalls :
        NamedAfterPrompt(p) => CleanName(p) /\ Len(BeforeExtension(p)) <= 200

\* C5 as amended: the filename derived from the prompt is clean; its part
\* before the extension is at most 200 characters long for index 0, and at
\* most 200 characters plus the '_<index>' suffix for an index i > 0.
C5_CleanAndBounded ==
    \A p \in NameCalls :
        NamedAfterPrompt(p) =>
            /\ CleanName(p)
            /\ Len(BeforeExtension(p)) <=
                  200 + (IF call[p].i = 0 THEN 0
                         ELSE 1 + Len(NumToStr(call[p].i)))

\* C5's case: the second image of a prompt that is cut to 200 characters.
C5_Witness ==
    \E p \in NameCalls :
        /\ NamedAfterPrompt(p)
        /\ call[p].i = 1
        /\ Len(call[p].opts.prompt) > 200
        /\ Len(BeforeExtension(p)) = 202

\* Every maximal run of spaces, tabs and newlines replaced by one '_': the
\* characters outside a run are kept, and the last character of each run
\* becomes the underscore.
UnderscoreRuns(s) ==
    LET white(i) == s[i] \in {" ", "\t", "\n", "\r", "\f"}
        last(i)  == i = Len(s) \/ ~white(i + 1)
        marked   == [i \in 1..Len(s) |->
                        IF ~white(i) THEN <<s[i]>>
                        ELSE IF last(i) THEN <<"_">> ELSE <<>>]
        kept     == SelectSeq(marked, LAMBDA m : m # <<>>)
    IN  [k \in 1..Len(kept) |-> kept[k][1]]

\* The reference of C17: the forbidden characters removed, every maximal run
\* of whitespace replaced by one underscore, the first 200 characters kept.
ReferenceSanitize(prompt) ==
    LET kept == SelectSeq(prompt, LAMBDA c :
                    c \notin ForbiddenChars \cup (ControlChars \ WhitespaceChars))
        runs == UnderscoreRuns(kept)
    IN  SubSeq(runs, 1, IF Len(runs) < 200 THEN Len(runs) ELSE 200)

\* C17: the name derived from a prompt is the reference applied to the
\* prompt: forbidden characters removed, every maximal run of whitespace
\* (spaces, tabs, newlines) replaced by one underscore, cut to 200
\* characters.
C17_SanitizeEqualsReference ==
    \A p \in NameCalls :
        NamedAfterPrompt(p) =>
            call[p].filename =
                Indexed(ReferenceSanitize(call[p].opts.prompt), call[p].i,
                        PassedExtension(p))

\* The same for the prompts whose only whitespace is the space.
C17_SanitizeEqualsReferenceOfSpaces ==
    \A p \in NameCalls :
        (NamedAfterPrompt(p)
           /\ \A k \in 1..Len(call[p].opts.prompt) :
                 call[p].opts.prompt[k] \notin ControlChars) =>
            call[p].filename =
                Indexed(ReferenceSanitize(call[p].opts.prompt), call[p].i,
                        PassedExtension(p))

(***************************************************************************)
(* SpecLoop: one generate() call on directories that hold a chain of taken *)
(* names, with an existence check that is answered in the end              *)
(***************************************************************************)
\* The longest chain 'custom 1.png', ..., 'custom n.png' in a directory.
MaxTaken == 3

\* custom.png, 'custom 1.png', ..., 'custom n.png'
TakenChain(n) ==
    {StrCustomPng} \cup
        {StrCustom \o <<" ">> \o NumToStr(k) \o <<".">> \o StrPng : k \in 1..n}

LoopDisks ==
    {DiskOf({})} \cup {DiskOf(TakenChain(n)) : n \in 0..MaxTaken}
        \cup {DiskOf(TakenChain(1) \cup {StrCustom \o <<"_", "1", ".">> \o StrPng,
                                         StrCat \o <<".">> \o StrPng})}

LoopFilenames == {None, Some(StrCustomPng)}

LoopOptions == {PromptOnly(StrCat)}

InitLoop ==
    /\ env = EnvWithKeys
    /\ gen = NoGen
    /\ disk \in LoopDisks
    /\ call = [p \in Calls |-> IdleCall]
    /\ network = {}
    /\ overwrites = {}
    /\ cli = "none"

NextLoop ==
    \/ \E fn \in LoopFilenames : Construct("replicate", None, None, fn)
    \/ \E p \in NameCalls, o \in LoopOptions : Generate(p, o)
    \/ \E p \in NameCalls : \E data \in Responses(gen.provider, MaxImages) :
          ProviderReturns(p, data)
    \/ \E p \in NameCalls : FetchReturns(p)
    \/ \E p \in NameCalls : Access(p)
    \/ \E p \in NameCalls : Write(p)

\* fs.access settles: the existence check of a call that is in the collision
\* loop is answered in the end.
SpecLoop ==
    InitLoop /\ [][NextLoop]_vars /\ \A p \in NameCalls : WF_vars(Access(p))

MaxCount == 2

StrEnvOpenAI == <<"o">>

StrEnvReplicate == <<"r">>

StrDallE2 == <<"d", "a", "l", "l", "-", "e", "-", "2">>

StrHigh == <<"h", "i", "g", "h">>

StrTransparent == <<"t", "r">>

Str512x768 == <<"5", "1", "2", "x", "7", "6", "8">>

MapEnvs ==
    [ OPENAI_API_KEY : {None, Some(<<>>), Some(StrEnvOpenAI)},
      REPLICATE_API_TOKEN : {None, Some(StrEnvReplicate)} ]

MapProviders == {"openai", "replicate", "midjourney"}

MapKeys == {None, Some(<<>>), Some(StrKey)}

MapSizes ==
    { None, Some(DefaultSize), Some(Str512x768), Some(StrAuto),
      Some(<<"a", "b", "c">>), Some(<<"5", "1", "2">>),
      Some(<<"x", "7", "6", "8">>) }

MapOptions ==
    [ prompt      : {<<>>, StrCat},
      model       : {None, Some(StrDallE2)},
      size        : MapSizes,
      quality     : {None, Some(StrHigh)},
      format      : {None, Some(StrPng), Some(StrJpeg)},
      compression : {None, Some(0), Some(50)},
      background  : {None, Some(StrTransparent)},
      n           : {None} \cup {Some(k) : k \in 1..MaxCount} ]

\* The options of the command after commander has applied its defaults.
CliDefaults ==
    [ prompt |-> Some(StrCat), provider |-> "openai", apiKey |-> None,
      output |-> None, outputDir |-> Cwd, model |-> None,
      size |-> DefaultSize, quality |-> StrAuto, format |-> StrPng,
      compression |-> None, background |-> None, number |-> <<"1">> ]

MapCliArgs ==
    {[CliDefaults EXCEPT !.prompt = prompt, !.provider = provider,
                         !.apiKey = key, !.output = output,
                         !.number = number] :
        prompt \in {None, Some(<<>>), Some(StrCat)},
        provider \in {"openai", "OpenAI", "REPLICATE", "midjourney"},
        key \in {None, Some(StrKey)},
        output \in {None, Some(StrCustomPng), Some(Cwd \o <<"/">> \o StrCustomPng)},
        number \in {<<"1">>, <<"2">>, <<"a">>}}

InitMap ==
    /\ env \in MapEnvs
    /\ gen = NoGen
    /\ disk = DiskOf({})
    /\ call = [p \in Calls |-> IdleCall]
    /\ network = {}
    /\ overwrites = {}
    /\ cli = "none"

NextMap ==
    \/ \E provider \in MapProviders, key \in MapKeys :
          Construct(provider, key, None, None)
    \/ /\ call[CallOrder[1]].pc = "idle"
       /\ \E o \in MapOptions : Generate(CallOrder[1], o)
    \/ /\ cli = "none"
       /\ \E a \in MapCliArgs : CliGenerate(a)

SpecMap == InitMap /\ [][NextMap]_vars

(***************************************************************************)
(* Claims checked under SpecMap                                            *)
(***************************************************************************)
\* C6: constructing a generator with a provider tag other than 'openai' or
\* 'replicate' fails with the unsupported-provider error, whether or not an
\* API key is supplied, with no provider client created and no request sent.
C6_UnknownProviderIsUnsupported ==
    (gen.state # "none" /\ gen.provider \notin {"openai", "replicate"}) =>
        /\ gen.state = "failed"
        /\ gen.error = "UnsupportedProvider"
        /\ gen.client = "none"
        /\ network = {}

\* C7: a generate() call whose prompt is empty fails with an invalid-option
\* error and sends no request to the provider.
C7_EmptyPromptIsRejected ==
    \A p \in Calls :
        (call[p].pc # "idle" /\ call[p].opts.prompt = <<>>) =>
            /\ call[p].pc = "failed"
            /\ call[p].error = Wrapped("InvalidOption")
            /\ \A r \in network : r[1] # p

\* The command line's half of C7: with an empty or missing prompt the
\* command exits before a generator is built or a request is sent.
C7_CliRejectsEmptyPrompt ==
    cli = "exit 1: prompt is required" =>
        gen.state = "none" /\ network = {} /\ call = [p \in Calls |-> IdleCall]

\* A call that has sent its request to the given provider.
Sent(p, provider) == call[p].pc # "idle" /\ gen.provider = provider

\* The supplied value (a non-empty string or a positive count), or the
\* default when the option is absent.
SuppliedOr(o, default) == IF o = <<>> THEN default ELSE o[1]

IsWidthXHeight(s) ==
    \E k \in 2..(Len(s) - 1) :
        /\ s[k] = "x"
        /\ \A j \in (1..Len(s)) \ {k} : IsDigit(s[j])

WidthOf(s) == DigitsValue(SubSeq(s, 1, Min({k \in 1..Len(s) : s[k] = "x"}) - 1))

HeightOf(s) ==
    DigitsValue(SubSeq(s, Min({k \in 1..Len(s) : s[k] = "x"}) + 1, Len(s)))

\* C9: the Replicate payload's width and height are the two integers of a
\* WIDTHxHEIGHT size, and both 1024 when the size is absent or is not of
\* that form; num_outputs is the requested count, 1 by default.
C9_ReplicatePayload ==
    \A p \in Calls :
        Sent(p, "replicate") =>
            LET o == call[p].opts
                q == call[p].payload
            IN  /\ q.num_outputs = SuppliedOr(o.n, 1)
                /\ IF o.size # None /\ IsWidthXHeight(o.size[1])
                   THEN /\ q.width = {WidthOf(o.size[1])}
                        /\ q.height = {HeightOf(o.size[1])}
                   ELSE /\ q.width = {1024}
                        /\ q.height = {1024}

\* The same for the sizes that are absent or of the form WIDTHxHEIGHT.
C9_ReplicatePayloadOfWellFormedSize ==
    \A p \in Calls :
        (Sent(p, "replicate")
           /\ (call[p].opts.size = None \/ IsWidthXHeight(call[p].opts.size[1]))) =>
            LET o == call[p].opts
                q == call[p].payload
            IN  /\ q.num_outputs = SuppliedOr(o.n, 1)
                /\ IF o.size # None
                   THEN /\ q.width = {WidthOf(o.size[1])}
                        /\ q.height = {HeightOf(o.size[1])}
                   ELSE /\ q.width = {1024}
                        /\ q.height = {1024}

\* The variable getApiKeyFromEnv reads for a known provider.
OwnVariable(provider) ==
    IF provider = "openai" THEN env.OPENAI_API_KEY ELSE env.REPLICATE_API_TOKEN

\* An optional string that is absent or empty.
UnsetOrEmpty(o) == o = <<>> \/ o[1] = <<>>

\* C13: for a known provider the constructor fails with the missing-key
\* error exactly when no (non-empty) apiKey is passed and the provider's own
\* variable is unset or empty; a passed key is the key used whatever the
\* environment holds, and otherwise the key is the provider's own variable,
\* never the other provider's.
C13_MissingCredential ==
    (gen.state # "none" /\ gen.provider \in {"openai", "replicate"}) =>
        /\ gen.state = "failed" <=>
              (UnsetOrEmpty(gen.apiKeyOption)
                 /\ UnsetOrEmpty(OwnVariable(gen.provider)))
        /\ gen.state = "failed" => gen.error = "ApiKeyNotFound"
        /\ gen.state = "ok" =>
              gen.apiKey = IF UnsetOrEmpty(gen.apiKeyOption)
                           THEN OwnVariable(gen.provider)[1]
                           ELSE gen.apiKeyOption[1]

\* C13's case: a replicate generator built with no key and without
\* REPLICATE_API_TOKEN fails although OPENAI_API_KEY is set.
C13_Witness ==
    /\ gen.state = "failed"
    /\ gen.error = "ApiKeyNotFound"
    /\ gen.provider = "replicate"
    /\ gen.apiKeyOption = <<>>
    /\ env.REPLICATE_API_TOKEN = <<>>
    /\ env.OPENAI_API_KEY = <<StrEnvOpenAI>>

\* C16: the replicate payload holds exactly prompt, width, height and
\* num_outputs; the openai payload carries output_format exactly when a
\* format other than png was supplied, output_compression exactly when a
\* compression value (0..100) was supplied with format jpeg or webp, and
\* background exactly when a background was supplied.
C16_OnlyLegalFields ==
    \A p \in Calls :
        /\ Sent(p, "replicate") =>
              DOMAIN call[p].payload = {"prompt", "width", "height", "num_outputs"}
        /\ Sent(p, "openai") =>
              LET o == call[p].opts
                  q == call[p].payload
              IN  /\ q.output_format # <<>> <=>
                        (o.format # <<>> /\ o.format[1] # <<"p", "n", "g">>)
                  /\ q.output_compression # <<>> <=>
                        (o.compression # <<>>
                           /\ o.format \in {<<<<"j", "p", "e", "g">>>>,
                                             <<<<"w", "e", "b", "p">>>>})
                  /\ q.background # <<>> <=> o.background # <<>>

\* The same for the compression values other than 0.
C16_OnlyLegalFieldsOfNonZeroCompression ==
    \A p \in Calls :
        /\ Sent(p, "replicate") =>
              DOMAIN call[p].payload = {"prompt", "width", "height", "num_outputs"}
        /\ (Sent(p, "openai") /\ call[p].opts.compression # <<0>>) =>
              LET o == call[p].opts
                  q == call[p].payload
              IN  /\ q.output_format # <<>> <=>
                        (o.format # <<>> /\ o.format[1] # <<"p", "n", "g">>)
                  /\ q.output_compression # <<>> <=>
                        (o.compression # <<>>
                           /\ o.format \in {<<<<"j", "p", "e", "g">>>>,
                                             <<<<"w", "e", "b", "p">>>>})
                  /\ q.background # <<>> <=> o.background # <<>>

(***************************************************************************)
(* SpecFault: concurrent generate() calls whose provider request, image    *)
(* fetch, existence check and file write may fail                          *)
(***************************************************************************)
FaultFilenames == {None}

FaultOptions == {PromptOnly(StrCat)}

FaultDisks ==
    { DiskOf({}),
      DiskOf({StrCat \o <<".">> \o StrPng}) }

InitFault ==
    /\ env = EnvWithKeys
    /\ gen = NoGen
    /\ disk \in FaultDisks
    /\ call = [p \in Calls |-> IdleCall]
    /\ network = {}
    /\ overwrites = {}
    /\ cli = "none"

NextFault ==
    \/ \E provider \in {"openai", "replicate"}, fn \in FaultFilenames :
          Construct(provider, None, None, fn)
    \/ \E k \in 1..Len(CallOrder), o \in FaultOptions :
          /\ \A j \in 1..(k - 1) : call[CallOrder[j]].pc # "idle"
          /\ Generate(CallOrder[k], o)
    \/ \E p \in Calls : \E data \in Responses(gen.provider, MaxImages) :
          ProviderReturns(p, data)
    \/ \E p \in Calls : ProviderFails(p)
    \/ \E p \in Calls : FetchReturns(p)
    \/ \E p \in Calls : FetchFails(p)
    \/ \E p \in Calls : Access(p)
    \/ \E p \in Calls : AccessFails(p)
    \/ \E p \in Calls : Write(p)
    \/ \E p \in Calls : WriteFails(p)

SpecFault == InitFault /\ [][NextFault]_vars

(***************************************************************************)
(* Claims checked under SpecFault                                          *)
(***************************************************************************)
\* The files of a directory that call p wrote, with what it wrote.
WrittenBy(d, p) == {<<q, d[q]>> : q \in {r \in DOMAIN d : d[r][1] = p}}

\* The error of the step a call is waiting for.
UnderlyingError(pc) ==
    CASE pc = "request" -> "provider"
      [] pc = "fetch"   -> "fetch"
      [] pc = "write"   -> "write"
      [] OTHER          -> "none"

\* The files a call has pushed to savedPaths are on disk as it wrote them.
SavedFilesIntact(p) ==
    \A j \in 1..Len(call[p].savedPaths) :
        /\ call[p].savedPaths[j] \in DOMAIN disk
        /\ disk[call[p].savedPaths[j]] = <<p, call[p].resolved[j]>>

\* C11: when the provider request, a fetch or a file write fails, generate
\* throws one error whose message wraps the underlying error; the failing
\* step is not sent or run again, the step leaves the directory as it was
\* (every file written before it is still there: unchanged, when no other
\* call has run on the directory), and the call does nothing more: it
\* writes no file after the failing step. No failure is swallowed: a call
\* that returns has saved every image the provider sent it data for.
C11_FailureIsSignalledOnce ==
    /\ [][\A p \in Calls :
            (call[p].pc # "failed" /\ call'[p].pc = "failed") =>
                /\ call[p].pc \in {"request", "fetch", "write"}
                /\ call'[p].error =
                      <<"Failed to generate image", UnderlyingError(call[p].pc)>>
                /\ call'[p].requests = call[p].requests
                /\ call'[p].savedPaths = call[p].savedPaths
                /\ Range(call[p].savedPaths) \subseteq DOMAIN disk
                /\ disk' = disk
                /\ network' = network]_vars
    /\ [][\A p \in Calls :
            call[p].pc = "failed" =>
                /\ call'[p] = call[p]
                /\ WrittenBy(disk', p) \subseteq WrittenBy(disk, p)]_vars
    /\ [](\A p \in Calls :
            (call[p].pc = "failed"
               /\ \A q \in Calls \ {p} : call[q].pc = "idle") =>
                SavedFilesIntact(p))
    /\ [](\A p \in Calls :
            call[p].pc = "done" =>
                Len(call[p].savedPaths) =
                    Cardinality({j \in 1..Len(call[p].response) :
                        gen.provider = "openai" => call[p].response[j] = "b64"}))

\* C11's case: the write of a call's second image has failed, and the file
\* of its first image is on disk as the call wrote it.
C11_Witness ==
    \E p \in Calls :
        /\ call[p].pc = "failed"
        /\ call[p].error = Wrapped("write")
        /\ Len(call[p].savedPaths) = 1
        /\ call[p].savedPaths[1] \in DOMAIN disk
        /\ disk[call[p].savedPaths[1]] = <<p, 0>>

\* A sequence of numbers that increases strictly.
Increasing(s) == \A j, k \in 1..Len(s) : j < k => s[j] < s[k]

\* C14: a generate call issues exactly one provider request; while that
\* request is pending the call has checked and written nothing; and the
\* images are saved one after another in return order: getOutputPath is
\* called for an image only when every image it was called for before has
\* been written, and a write is the write of the image resolved last.
C14_OneRequestThenSequentialSaves ==
    /\ [](\A p \in Calls :
            /\ call[p].pc # "idle" => call[p].requests = 1
            /\ call[p].pc = "request" =>
                  /\ call[p].resolved = <<>>
                  /\ call[p].tried = <<>>
                  /\ call[p].savedPaths = <<>>
                  /\ WrittenBy(disk, p) = {}
            /\ Increasing(call[p].resolved)
            /\ call[p].pc \in {"access", "write"} =>
                  /\ Len(call[p].savedPaths) = Len(call[p].resolved) - 1
                  /\ call[p].resolved[Len(call[p].resolved)] = call[p].i
            /\ call[p].pc \in {"fetch", "done"} =>
                  Len(call[p].savedPaths) = Len(call[p].resolved))
    /\ [][\A p \in Calls :
            WrittenBy(disk', p) \ WrittenBy(disk, p) # {} =>
                /\ call[p].pc = "write"
                /\ disk'[call[p].outputPath] = <<p, call[p].i>>
                /\ call'[p].savedPaths =
                      Append(call[p].savedPaths, call[p].outputPath)
                /\ Len(call'[p].savedPaths) = Len(call[p].resolved)]_vars

\* C14's case: a call has written its first image and is checking the path
\* of its second one.
C14_Witness ==
    \E p \in Calls :
        /\ call[p].pc = "access"
        /\ call[p].i = 1
        /\ Len(call[p].savedPaths) = 1
        /\ call[p].requests = 1

\* C15: an error of the existence check other than 'file does not exist' is
\* signalled to the caller as a filesystem failure, and getOutputPath never
\* returns a path whose check ended in such an error.
C15_AccessErrorIsSignalled ==
    \A p \in Calls :
        /\ call[p].swallowed # <<>> =>
              /\ call[p].pc = "failed"
              /\ call[p].error = Wrapped("access")
        /\ call[p].pc = "write" =>
              call[p].outputPath \notin Range(call[p].swallowed)

=============================================================================
